---- MODULE Spec2Model ----
(***************************************************************************)
(* Model of src/path.rs: the classifier is_absolute, the Path value (a     *)
(* Cow<str> buffer) with new / push / borrow, and the URI formatter        *)
(* to_uri.                                                                 *)
(*                                                                         *)
(* A character is a one-character string, a Rust string is a sequence of   *)
(* characters.  A Path slot p holds a Cow: cow[p] is its variant, view[p]  *)
(* the storage cell whose text it reads, data[c] the text of cell c.  Cell *)
(* p is the String the Path owns (Cow::Owned) or the caller's string it    *)
(* was constructed from (Cow::Borrowed); an alias made by borrow() reads   *)
(* the cell of the Path it was borrowed from.  lender[p] is the Path whose *)
(* shared borrow p's lifetime keeps alive.                                 *)
(***************************************************************************)
EXTENDS Naturals, Sequences, FiniteSets

\* Bounds of the model.
MaxBufLen == 8
MaxAliasLen == 4
MaxPaths == 3
MaxStrLen == 3
MaxOpsLen == 3

PathIds == 1..MaxPaths

\* ------------------------------------------------------------------------
\* Characters and strings

AsciiLetters ==
  {"A", "B", "C", "D", "E", "F", "G", "H", "I", "J", "K", "L", "M",
   "N", "O", "P", "Q", "R", "S", "T", "U", "V", "W", "X", "Y", "Z",
   "a", "b", "c", "d", "e", "f", "g", "h", "i", "j", "k", "l", "m",
   "n", "o", "p", "q", "r", "s", "t", "u", "v", "w", "x", "y", "z"}

\* The characters the classifier's inputs are drawn from: the three
\* characters it tests for, an upper and a lower case letter, a digit and
\* a punctuation character next to the letter ranges.
Alphabet == {"/", "\\", ":", "C", "z", "1", "@"}

Strings(n) == UNION {[1..k -> Alphabet] : k \in 0..n}

\* The strings handed to Path::new and Path::push.
AbsoluteSegments ==
  { <<"/">>, <<"/", "x">>, <<"/", "r", "u", "s", "t", "c">>,
    <<"/", "r", "u", "s", "t", "c", "x">>,
    <<"C", ":">>, <<"C", ":", "\\">>, <<"z", ":", "x">>, <<"\\", "\\">> }

RelativeSegments ==
  { <<>>, <<"x">>, <<"r", "u", "s", "t", "c">>, <<"\\">>, <<"\\", "x">>,
    <<"C">>, <<"1", ":">>, <<":">> }

Segments == AbsoluteSegments \cup RelativeSegments

\* The strings of the aliasing specification.
AliasSegments == { <<"/">>, <<"C", ":">>, <<"x">> }

CowKinds == {"Borrowed", "Owned"}

starts_with(p, prefix) ==
  /\ Len(p) >= Len(prefix)
  /\ SubSeq(p, 1, Len(prefix)) = prefix

starts_with_char(p, ch) == Len(p) > 0 /\ p[1] = ch

ends_with_char(p, ch) == Len(p) > 0 /\ p[Len(p)] = ch

\* ------------------------------------------------------------------------
\* The classifier

\* is_absolute with the drive letter range cut to the upper case letters.
is_absolute_upper(p) ==
  IF Len(p) = 0 THEN FALSE
  ELSE LET b == p[1] IN
       CASE b = "/" -> TRUE
         [] b \in {"A", "B", "C", "D", "E", "F", "G", "H", "I", "J", "K", "L",
                   "M", "N", "O", "P", "Q", "R", "S", "T", "U", "V", "W", "X",
                   "Y", "Z"} -> Len(p) >= 2 /\ p[2] = ":"
         [] b = "\\" -> Len(p) >= 2 /\ p[2] = "\\"
         [] OTHER -> FALSE

is_absolute(p) ==
  IF Len(p) = 0 THEN FALSE
  ELSE LET b == p[1] IN
       CASE b = "/" -> TRUE
         [] b \in AsciiLetters -> Len(p) >= 2 /\ p[2] = ":"
         [] b = "\\" -> Len(p) >= 2 /\ p[2] = "\\"
         [] OTHER -> FALSE

\* ------------------------------------------------------------------------
\* strip_prefix and to_uri

RustcPrefix == <<"/", "r", "u", "s", "t", "c", "/">>

RustUriBase ==
  <<"h", "t", "t", "p", "s", ":", "/", "/", "r", "a", "w", ".", "g", "i",
    "t", "h", "u", "b", "u", "s", "e", "r", "c", "o", "n", "t", "e", "n",
    "t", ".", "c", "o", "m", "/", "r", "u", "s", "t", "-", "l", "a", "n",
    "g", "/", "r", "u", "s", "t", "/">>

FileUnixBase == <<"f", "i", "l", "e", ":", "/", "/">>

FileWindowsBase == <<"f", "i", "l", "e", ":", "/", "/", "/">>

\* str::get_unchecked(n..): the tail from byte n; outside the string the
\* behaviour is undefined and any value may come back.
get_unchecked(p, n) ==
  IF n <= Len(p)
  THEN {[ub |-> FALSE, val |-> SubSeq(p, n + 1, Len(p))]}
  ELSE {[ub |-> TRUE, val |-> v] : v \in {<<>>, p}}

\* strip_prefix slicing without the starts_with test.
strip_prefix_unchecked(p, prefix) ==
  {[some |-> TRUE, ub |-> o.ub, val |-> o.val] :
     o \in get_unchecked(p, Len(prefix))}

\* The Option returned by strip_prefix, one record per possible outcome.
strip_prefix(p, prefix) ==
  IF starts_with(p, prefix)
  THEN {[some |-> TRUE, ub |-> o.ub, val |-> o.val] :
          o \in get_unchecked(p, Len(prefix))}
  ELSE {[some |-> FALSE, ub |-> FALSE, val |-> <<>>]}

\* to_uri matching the prefix `/rustc` without its closing slash.
to_uri_open_prefix(path) ==
  { IF o.some
    THEN [ok |-> ~o.ub, res |-> RustUriBase \o o.val]
    ELSE IF starts_with_char(path, "/")
         THEN [ok |-> TRUE, res |-> FileUnixBase \o path]
         ELSE [ok |-> TRUE, res |-> FileWindowsBase \o path] :
    o \in strip_prefix(path, <<"/", "r", "u", "s", "t", "c">>) }

\* to_uri formatting every non-rustc buffer as `file://` ++ buffer.
to_uri_two_slashes(path) ==
  { IF o.some
    THEN [ok |-> ~o.ub, res |-> RustUriBase \o o.val]
    ELSE [ok |-> TRUE, res |-> FileUnixBase \o path] :
    o \in strip_prefix(path, RustcPrefix) }

\* The possible outcomes of to_uri on a buffer: ok is FALSE when the call
\* ran into undefined behaviour.
to_uri(path) ==
  { IF o.some
    THEN [ok |-> ~o.ub, res |-> RustUriBase \o o.val]
    ELSE IF starts_with_char(path, "/")
         THEN [ok |-> TRUE, res |-> FileUnixBase \o path]
         ELSE [ok |-> TRUE, res |-> FileWindowsBase \o path] :
    o \in strip_prefix(path, RustcPrefix) }

\* ------------------------------------------------------------------------
\* State

VARIABLES cow, data, view, lender, last

vars == <<cow, data, view, lender, last>>

pathvars == <<cow, data, view, lender>>

\* The string observed through Path p (deref of its Cow).
Str(p) == data[view[p]]

Live(p) == cow[p] # "None"

\* No live Path holds a shared borrow of p, so `&mut p` and moving or
\* dropping p are accepted by the borrow checker.
Unlent(p) == \A q \in PathIds : ~(Live(q) /\ lender[q] = p)

Rec(op, p, q, arg, pre, res, ok) ==
  [op |-> op, p |-> p, q |-> q, arg |-> arg, pre |-> pre, res |-> res,
   ok |-> ok]

NoPaths ==
  /\ cow = [p \in PathIds |-> "None"]
  /\ data = [p \in PathIds |-> <<>>]
  /\ view = [p \in PathIds |-> p]
  /\ lender = [p \in PathIds |-> 0]

Init ==
  /\ NoPaths
  /\ last = Rec("none", 0, 0, <<>>, <<>>, <<>>, TRUE)

\* ------------------------------------------------------------------------
\* Path::new

\* Path::new without its assert!.
Construct_unchecked(p, s, c) ==
  /\ ~Live(p)
  /\ cow' = [cow EXCEPT ![p] = c]
  /\ data' = [data EXCEPT ![p] = s]
  /\ view' = [view EXCEPT ![p] = p]
  /\ lender' = [lender EXCEPT ![p] = 0]
  /\ last' = Rec("new", p, 0, s, <<>>, <<>>, TRUE)

Construct(p, s, c) ==
  /\ ~Live(p)
  /\ IF is_absolute(s)
     THEN /\ cow' = [cow EXCEPT ![p] = c]
          /\ data' = [data EXCEPT ![p] = s]
          /\ view' = [view EXCEPT ![p] = p]
          /\ lender' = [lender EXCEPT ![p] = 0]
          /\ last' = Rec("new", p, 0, s, <<>>, <<>>, TRUE)
     ELSE \* assert! panics, no Path is returned
          /\ UNCHANGED pathvars
          /\ last' = Rec("new", p, 0, s, <<>>, <<>>, FALSE)

\* ------------------------------------------------------------------------
\* Path::push

\* The else branch with the style taken from the build platform (Unix)
\* instead of from the buffer.
push_relative_unix(p1, p2) ==
  (IF ~ends_with_char(p1, "/") THEN Append(p1, "/") ELSE p1) \o p2

\* The else branch adding its separator without looking at the buffer's end.
push_relative_always_sep(p1, p2) ==
  (IF starts_with_char(p1, "/") THEN Append(p1, "/") ELSE Append(p1, "\\"))
    \o p2

\* The else branch of push on the text p1 that to_mut returned.
push_relative(p1, p2) ==
  LET sep == IF starts_with_char(p1, "/")
             THEN IF ~ends_with_char(p1, "/") THEN Append(p1, "/") ELSE p1
             ELSE IF ~ends_with_char(p1, "\\") THEN Append(p1, "\\") ELSE p1
  IN sep \o p2

\* to_mut handing out the borrowed text itself, without the clone.
to_mut_shared(p) == view[p]

\* Cow::to_mut: the cell the mutable reference points to.  A Borrowed Cow
\* clones the text it reads into a String of its own, an Owned one hands
\* out its String.
to_mut(p) == p

push_result(b, p2) == IF is_absolute(p2) THEN p2 ELSE push_relative(b, p2)

\* push joining every segment, the absolute ones too.
Push_append_only(p, p2, c) ==
  /\ Live(p)
  /\ Unlent(p)
  /\ LET cell == to_mut(p) IN
       /\ cow' = [cow EXCEPT ![p] = "Owned"]
       /\ view' = [view EXCEPT ![p] = cell]
       /\ data' = [data EXCEPT ![cell] = push_relative(Str(p), p2)]
  /\ UNCHANGED lender
  /\ last' = Rec("push", p, 0, p2, Str(p), <<>>, TRUE)

Push(p, p2, c) ==
  /\ Live(p)
  /\ Unlent(p)
  /\ IF is_absolute(p2)
     THEN /\ cow' = [cow EXCEPT ![p] = c]
          /\ data' = [data EXCEPT ![p] = p2]
          /\ view' = [view EXCEPT ![p] = p]
     ELSE LET cell == to_mut(p) IN
          /\ cow' = [cow EXCEPT ![p] = "Owned"]
          /\ view' = [view EXCEPT ![p] = cell]
          /\ data' = [data EXCEPT ![cell] = push_relative(Str(p), p2)]
  /\ UNCHANGED lender
  /\ last' = Rec("push", p, 0, p2, Str(p), <<>>, TRUE)

\* ------------------------------------------------------------------------
\* Path::borrow

Borrow(p, q) ==
  /\ Live(p)
  /\ ~Live(q)
  /\ cow' = [cow EXCEPT ![q] = "Borrowed"]
  /\ view' = [view EXCEPT ![q] = view[p]]
  /\ lender' = [lender EXCEPT ![q] = p]
  /\ UNCHANGED data
  /\ last' = Rec("borrow", p, q, <<>>, Str(p), <<>>, TRUE)

\* ------------------------------------------------------------------------
\* Path::to_uri

\* to_uri taking its text through to_mut, which makes a borrowed Path own
\* a copy.
ToUri_to_mut(p) ==
  /\ Live(p)
  /\ \E o \in to_uri(Str(p)) :
       last' = Rec("to_uri", p, 0, <<>>, Str(p), o.res, o.ok)
  /\ cow' = [cow EXCEPT ![p] = "Owned"]
  /\ data' = [data EXCEPT ![p] = Str(p)]
  /\ view' = [view EXCEPT ![p] = p]
  /\ UNCHANGED lender

ToUri(p) ==
  /\ Live(p)
  /\ \E o \in to_uri(Str(p)) :
       last' = Rec("to_uri", p, 0, <<>>, Str(p), o.res, o.ok)
  /\ UNCHANGED pathvars

\* ------------------------------------------------------------------------
\* A Path goes out of scope.

Drop(p) ==
  /\ Live(p)
  /\ Unlent(p)
  /\ cow' = [cow EXCEPT ![p] = "None"]
  /\ data' = [data EXCEPT ![p] = <<>>]
  /\ view' = [view EXCEPT ![p] = p]
  /\ lender' = [lender EXCEPT ![p] = 0]
  /\ last' = Rec("drop", p, 0, <<>>, Str(p), <<>>, TRUE)

\* ------------------------------------------------------------------------
\* Specifications

Fits(p, p2, n) == Len(push_result(Str(p), p2)) <= n

\* One Path, built from the segments and read as a URI.
NewStep == \E s \in Segments, c \in CowKinds : Construct(1, s, c)

PushStep ==
  \E s \in Segments, c \in CowKinds : Fits(1, s, MaxBufLen) /\ Push(1, s, c)

ToUriStep == ToUri(1)

DropStep == Drop(1)

Next == NewStep \/ PushStep \/ ToUriStep \/ DropStep

Spec == Init /\ [][Next]_vars

\* Slot 1 holds the constructed Path, the other slots its aliases; a new
\* alias takes the first empty slot.
AliasNew == \E s \in AliasSegments, c \in CowKinds : Construct(1, s, c)

AliasPush ==
  \E p \in PathIds, s \in AliasSegments, c \in CowKinds :
    Fits(p, s, MaxAliasLen) /\ Push(p, s, c)

FirstEmpty(q) == ~Live(q) /\ \A r \in PathIds : r < q => Live(r)

AliasBorrow == \E p \in PathIds, q \in PathIds : FirstEmpty(q) /\ Borrow(p, q)

AliasToUri == \E p \in PathIds : ToUri(p)

AliasDrop == \E p \in PathIds : Drop(p)

NextAlias == AliasNew \/ AliasPush \/ AliasBorrow \/ AliasToUri \/ AliasDrop

SpecAlias == Init /\ [][NextAlias]_vars

\* One Path and one alias of it, with every segment.
OpsNew == \E s \in Segments, c \in CowKinds : Construct(1, s, c)

OpsPush ==
  \E p \in {1, 2}, s \in Segments, c \in CowKinds :
    Fits(p, s, MaxOpsLen) /\ Push(p, s, c)

OpsBorrow == Borrow(1, 2)

OpsToUri == \E p \in {1, 2} : ToUri(p)

OpsDrop == \E p \in {1, 2} : Drop(p)

NextOps == OpsNew \/ OpsPush \/ OpsBorrow \/ OpsToUri \/ OpsDrop

SpecOps == Init /\ [][NextOps]_vars

\* The classifier applied to every string of at most MaxStrLen characters.
InitClassify ==
  /\ NoPaths
  /\ \E s \in Strings(MaxStrLen) :
       last = Rec("input", 0, 0, s, <<>>, <<>>, TRUE)

Classify ==
  /\ last.op = "input"
  /\ last' = Rec("is_absolute", 0, 0, last.arg, <<>>, <<>>,
                 is_absolute(last.arg))
  /\ UNCHANGED pathvars

NextClassify == Classify

SpecClassify == InitClassify /\ [][NextClassify]_vars

\* ------------------------------------------------------------------------
\* Properties

\* The absolute-path grammar as the specification words it.
AbsoluteGrammar(s) ==
  \/ Len(s) >= 1 /\ s[1] = "/"
  \/ Len(s) >= 2 /\ s[1] \in AsciiLetters /\ s[2] = ":"
  \/ Len(s) >= 2 /\ s[1] = "\\" /\ s[2] = "\\"

\* The separator of a buffer's style.
Sep(b) == IF Len(b) >= 1 /\ b[1] = "/" THEN "/" ELSE "\\"

EndsWithSep(b) == Len(b) >= 1 /\ b[Len(b)] = Sep(b)

\* The string observed through Path p after the step.
StrNext(p) == data'[view'[p]]

RelativePush == last.op = "push" /\ ~is_absolute(last.arg)

FileThreeSlashes == <<"f", "i", "l", "e", ":", "/", "/", "/">>

\* C1: the buffer of every Path, after Path::new and after any sequence of
\* pushes, starts with `/`, or with an ASCII letter followed by `:`, or with
\* two backslashes.
C1_PathInvariant == \A p \in PathIds : Live(p) => AbsoluteGrammar(Str(p))

\* C1 witness: a relative segment that is no path at all has been pushed.
C1_Witness ==
  /\ last.op = "push"
  /\ last.arg = <<"1", ":">>
  /\ Live(1)
  /\ Len(Str(1)) > Len(last.pre)

\* C2: after Push(s) with is_absolute(s), the buffer equals s exactly,
\* whatever the buffer and its style were before.
C2_ReplaceOnAbsolute ==
  (last.op = "push" /\ is_absolute(last.arg)) => Str(last.p) = last.arg

\* C2 witness: a Windows segment has replaced a longer Unix buffer.
C2_Witness ==
  /\ last.op = "push"
  /\ last.pre = <<"/", "x", "/", "x">>
  /\ last.arg = <<"C", ":">>
  /\ Str(1) = <<"C", ":">>

\* C3: after Push(s) with is_absolute(s) false, the buffer is b ++ sep ++ s
\* when b did not end with sep and b ++ s when it did, sep being `/` for a
\* buffer b starting with `/` and the backslash otherwise; b is a prefix of
\* the result.
C3_RelativeAppend ==
  RelativePush =>
    LET b == last.pre
        s == last.arg
    IN /\ Str(last.p) =
            IF EndsWithSep(b) THEN b \o s ELSE (b \o <<Sep(b)>>) \o s
       /\ starts_with(Str(last.p), b)

\* C3 witness: a segment pushed on the drive-letter buffer `C:` got the
\* backslash in between.
C3_Witness ==
  /\ RelativePush
  /\ last.pre = <<"C", ":">>
  /\ last.arg = <<"r", "u", "s", "t", "c">>
  /\ Str(1) = <<"C", ":", "\\", "r", "u", "s", "t", "c">>

\* C4: a Push on one of two Paths that share a buffer leaves the pushed Path
\* with a buffer of its own, shared with no other Path, and changes no
\* string observed through another Path.
C4_AliasIndependence ==
  [][last'.op = "push" =>
       /\ view'[last'.p] = last'.p
       /\ \A q \in PathIds \ {last'.p} :
            Live(q) => /\ Live(q)'
                       /\ Str(q)' = Str(q)
                       /\ view'[q] # last'.p]_vars

\* C4 witness: an alias that read the original's buffer has been pushed and
\* now differs from the original, which is still there.
C4_Witness ==
  /\ last.op = "push"
  /\ last.p # 1
  /\ Live(1)
  /\ lender[last.p] # 0
  /\ last.pre = Str(1)
  /\ Str(last.p) # Str(1)

\* C5: to_uri returns the rust-lang URL followed by r for a buffer
\* `/rustc/` ++ r, else `file://` ++ b for a buffer starting with `/`, else
\* `file:///` ++ b, with the characters of b unaltered.
C5_ToUriMapping ==
  last.op = "to_uri" =>
    LET b == last.pre IN
    /\ last.ok
    /\ last.res =
         IF starts_with(b, <<"/", "r", "u", "s", "t", "c", "/">>)
         THEN RustUriBase \o SubSeq(b, 8, Len(b))
         ELSE IF Len(b) >= 1 /\ b[1] = "/"
              THEN <<"f", "i", "l", "e", ":", "/", "/">> \o b
              ELSE FileThreeSlashes \o b

\* C5 witness: to_uri has been called on `/rustc/x` and returned the
\* rust-lang URL followed by `x`.
C5_Witness ==
  /\ last.op = "to_uri"
  /\ last.pre = <<"/", "r", "u", "s", "t", "c", "/", "x">>
  /\ last.res = RustUriBase \o <<"x">>

\* C6: is_absolute(s) is true exactly when s starts with `/`, or with an
\* ASCII letter followed by `:`, or with two backslashes; it is false for the
\* empty string, a single letter, a single backslash, a backslash followed by
\* another character, and a non-letter followed by `:`.
C6_Classifier ==
  last.op = "is_absolute" =>
    LET s == last.arg IN
    /\ last.ok <=> AbsoluteGrammar(s)
    /\ s = <<>> => ~last.ok
    /\ (Len(s) = 1 /\ s[1] # "/") => ~last.ok
    /\ (Len(s) >= 2 /\ s[1] = "\\" /\ s[2] # "\\") => ~last.ok
    /\ (Len(s) >= 2 /\ s[1] \notin AsciiLetters /\ s[1] # "/" /\ s[2] = ":")
         => ~last.ok

\* C6 witness: a bare lower case drive `z:` has been classified absolute.
C6_Witness ==
  /\ last.op = "is_absolute"
  /\ last.arg = <<"z", ":">>
  /\ last.ok

\* C7: Path::new fails exactly when its argument is not absolute, and then
\* no Path exists in its place; push, borrow and to_uri never fail.
C7_ErrorOutcomes ==
  /\ last.op = "new" =>
       /\ last.ok <=> is_absolute(last.arg)
       /\ ~last.ok => ~Live(last.p)
       /\ last.ok => Live(last.p) /\ Str(last.p) = last.arg
  /\ last.op \in {"push", "borrow", "to_uri"} => last.ok

\* C7 witness: Path::new has failed on the relative string `\x` and no Path
\* exists.
C7_Witness ==
  /\ last.op = "new"
  /\ ~last.ok
  /\ last.arg = <<"\\", "x">>
  /\ ~Live(1)
  /\ ~Live(2)

\* Two separator characters where the old buffer ends and the segment starts.
DoubledAtJoin ==
  LET n == Len(last.pre)
      r == Str(last.p)
  IN Len(r) > n /\ r[n] = Sep(last.pre) /\ r[n + 1] = Sep(last.pre)

\* C8 as stated: a relative segment pushed on a buffer ending with its
\* separator leaves no two adjacent separators where the two meet.
C8_NoDoubledSeparator ==
  (RelativePush /\ EndsWithSep(last.pre)) => ~DoubledAtJoin

\* C8 amended: push adds no separator to a buffer that ends with one, so the
\* two meet in a doubled separator only when the segment itself starts with
\* the separator character.
C8_NoAddedSeparator ==
  (RelativePush /\ EndsWithSep(last.pre)) =>
    /\ Len(Str(last.p)) = Len(last.pre) + Len(last.arg)
    /\ DoubledAtJoin <=> (Len(last.arg) >= 1 /\ last.arg[1] = Sep(last.pre))

\* C8 witness: a segment has been pushed on `C:\`.
C8_Witness ==
  /\ RelativePush
  /\ last.arg = <<"x">>
  /\ last.pre = <<"C", ":", "\\">>
  /\ Str(1) = <<"C", ":", "\\", "x">>

\* C9: to_uri changes no Path, and an alias made by borrow observes the
\* string of its original, so both give the same URI.
C9_ToUriPure ==
  [][/\ last'.op = "to_uri" =>
          /\ UNCHANGED pathvars
          /\ \A q \in PathIds :
               (Live(q) /\ Str(q) = Str(last'.p)) =>
                 [ok |-> last'.ok, res |-> last'.res] \in to_uri(Str(q))
     /\ last'.op = "borrow" =>
          /\ StrNext(last'.q) = Str(last'.p)
          /\ to_uri(StrNext(last'.q)) = to_uri(StrNext(last'.p))]_vars

\* C9 witness: to_uri has been called on an alias that still reads the
\* buffer of its original.
C9_Witness ==
  /\ last.op = "to_uri"
  /\ last.p # 1
  /\ cow[last.p] = "Borrowed"
  /\ view[last.p] = 1
  /\ Live(1)

\* C10: every URI to_uri returns starts with the rust-lang URL or with
\* `file:///`.
C10_UriShape ==
  last.op = "to_uri" =>
    \/ starts_with(last.res, RustUriBase)
    \/ starts_with(last.res, FileThreeSlashes)

\* C10 witness: to_uri has been called on a Unix buffer built by a push
\* and returned a URI with three slashes.
C10_Witness ==
  /\ last.op = "to_uri"
  /\ last.pre = <<"/", "x", "/", "x">>
  /\ starts_with(last.res, FileThreeSlashes)

====
